---- MODULE Spec2Model ----
(***************************************************************************)
(* Order-placement and market-decision pipeline of dex-bot-agent.          *)
(*                                                                         *)
(*   AgentGuide.handleDEXOperation / executeOperation / validateDEXOrder   *)
(*                                    (src/src/interfaces/ai.interface.ts) *)
(*   DexModule.placeOrder / validateOrder  (src/src/modules/dex/index.ts)  *)
(*   DexModule.placeOrderOnChain / execute        (src/src/core/agent.ts)  *)
(*                                                                         *)
(* JavaScript numbers and BigNumber values are modelled as exact rationals *)
(* [n, d] in lowest terms; a decimal string is modelled by the rational it *)
(* denotes.  A string returned by the advisor is modelled by the sequence  *)
(* of words that String.split(' ') gives for it.                           *)
(***************************************************************************)
EXTENDS Integers, Sequences, FiniteSets, TLC

(***************************************************************************)
(* Exact arithmetic                                                        *)
(***************************************************************************)
Abs(x) == IF x < 0 THEN -x ELSE x

RECURSIVE GCD(_, _)
GCD(a, b) == IF b = 0 THEN a ELSE GCD(b, a % b)

Rat(n, d) ==
    LET g == GCD(Abs(n), Abs(d))
        s == IF d < 0 THEN -1 ELSE 1
    IN  [n |-> s * (n \div g), d |-> s * (d \div g)]

Int2Rat(k) == [n |-> k, d |-> 1]

RMul(a, b) ==
    LET x == Rat(a.n, b.d)
        y == Rat(b.n, a.d)
    IN  Rat(x.n * y.n, x.d * y.d)

RDiv(a, b) == RMul(a, Rat(b.d, b.n))

RSub(a, b) == Rat(a.n * b.d - b.n * a.d, a.d * b.d)

RAbs(a) == [n |-> Abs(a.n), d |-> a.d]

RLess(a, b) == a.n * b.d < b.n * a.d

RLeq(a, b) == a.n * b.d <= b.n * a.d

IsInteger(a) == a.d = 1

\* Math.floor
Floor(a) == a.n \div a.d

\* BigNumber.ROUND_DOWN: towards zero
RoundDown(a) == IF a.n >= 0 THEN a.n \div a.d ELSE -((-a.n) \div a.d)

\* BigNumber's default ROUNDING_MODE, ROUND_HALF_UP: half away from zero
RoundHalfUp(a) ==
    LET m == Abs(a.n)
        up == IF 2 * (m % a.d) >= a.d THEN 1 ELSE 0
    IN  IF a.n >= 0 THEN (m \div a.d) + up ELSE -((m \div a.d) + up)

RECURSIVE Pow10(_)
Pow10(k) == IF k = 0 THEN 1 ELSE 10 * Pow10(k - 1)

(***************************************************************************)
(* Program constants                                                       *)
(***************************************************************************)
MARKET_IDS == [XPR_XMD |-> 1, XDOGE_XMD |-> 2, XBTC_XMD |-> 3]

MarketSymbols == {"XPR_XMD", "XDOGE_XMD", "XBTC_XMD", "FOO_BAR"}

\* DexModule.getMarketTokens: the same pair whatever the symbol is
getMarketTokens(marketSymbol) ==
    [bidToken |-> [code |-> "XPR", contract |-> "eosio.token",
                   precision |-> 4, multiplier |-> 10000],
     askToken |-> [code |-> "XMD", contract |-> "xmd.token",
                   precision |-> 6, multiplier |-> 1000000]]

MAX_ORDER_PERCENTAGE == Rat(5, 100)

SAFETY_MARGIN == Rat(99, 100)

MAX_PRICE_DEVIATION == Rat(5, 100)

\* core/agent.ts placeOrderOnChain: hard cap on the quantity
maxQuantity == 5

\* enum OrderType of modules/gecko/types.ts, used by AgentGuide
OrderType_LIMIT == 0

\* MintModule.MAX_RETRIES (unnamed/part_012)
MAX_RETRIES == 3

\* main loop of the trading agent (unnamed/part_013)
maxRetries == 30

\* AGENT_CONFIG.TRADE.RISK_PERCENTAGE
RISK_PERCENTAGE == 5

\* AGENT_CONFIG.TRADE (modules/image/types.ts), imported by modules/dex/index.ts
MIN_XPR_AMOUNT == 100

MAX_XPR_AMOUNT == 10000

\* AGENT_CONFIG.MARKETS.SUPPORTED, kept by DexModule as TRUSTED_MARKETS
TRUSTED_MARKETS == {"XPR_XMD"}

\* dexapi.getMarketBySymbol: the markets the DEX lists
getMarketBySymbol(symbol) ==
    IF symbol = "XPR_XMD"
    THEN [found |-> TRUE, market_id |-> 1,
          bid_token |-> [code |-> "XPR", contract |-> "eosio.token", precision |-> 4],
          ask_token |-> [code |-> "XMD", contract |-> "xmd.token", precision |-> 6]]
    ELSE [found |-> FALSE, market_id |-> 0,
          bid_token |-> [code |-> "", contract |-> "", precision |-> 0],
          ask_token |-> [code |-> "", contract |-> "", precision |-> 0]]

Account == "agentacct"

ActiveAuth(actor) == <<[actor |-> actor, permission |-> "active"]>>

(***************************************************************************)
(* Advisor responses: a string is the sequence of its split(' ') words     *)
(***************************************************************************)
\* String.prototype.toUpperCase on the words of the model
toUpperCase(w) ==
    CASE w = "use" -> "USE"
      [] w = "dex" -> "DEX"
      [] w = "placeOrder" -> "PLACEORDER"
      [] w = "skip" -> "SKIP"
      [] w = "xpr_xmd" -> "XPR_XMD"
      [] w = "buy" -> "BUY"
      [] w = "sell" -> "SELL"
      [] w = "hold" -> "HOLD"
      [] w = "market" -> "MARKET"
      [] w = "limit" -> "LIMIT"
      [] w = "stop" -> "STOP"
      [] w = "now" -> "NOW"
      [] w = "please" -> "PLEASE"
      [] w = "abc" -> "ABC"
      [] w = "No" -> "NO"
      [] w = "response" -> "RESPONSE"
      [] w = "from" -> "FROM"
      [] w = "helper" -> "HELPER"
      [] OTHER -> w

\* /\d+/ anchored on a whole word
IsDigits(w) == w \in {"0", "5", "1000", "20000"}

\* parseInt: the integer prefix of the word, NaN when there is none
parseInt(w) ==
    CASE w = "0" -> [nan |-> FALSE, v |-> 0]
      [] w = "5" -> [nan |-> FALSE, v |-> 5]
      [] w = "1000" -> [nan |-> FALSE, v |-> 1000]
      [] w = "20000" -> [nan |-> FALSE, v |-> 20000]
      [] w = "1.5" -> [nan |-> FALSE, v |-> 1]
      [] w = "-5" -> [nan |-> FALSE, v |-> -5]
      [] OTHER -> [nan |-> TRUE, v |-> 0]

\* the pattern without its closing anchor: words after the quantity are accepted
decisionPattern_Unanchored(d) ==
    /\ Len(d) >= 3
    /\ toUpperCase(d[1]) = "USE"
    /\ toUpperCase(d[2]) = "DEX"
    /\ \/ toUpperCase(d[3]) = "SKIP"
       \/ /\ Len(d) >= 7
          /\ toUpperCase(d[3]) = "PLACEORDER"
          /\ toUpperCase(d[4]) = "XPR_XMD"
          /\ toUpperCase(d[5]) \in {"BUY", "SELL"}
          /\ toUpperCase(d[6]) \in {"MARKET", "LIMIT"}
          /\ IsDigits(d[7])

\* /^USE DEX (placeOrder XPR_XMD (buy|sell) (market|limit) \d+|skip)$/i
decisionPattern(d) ==
    /\ Len(d) \in {3, 7}
    /\ toUpperCase(d[1]) = "USE"
    /\ toUpperCase(d[2]) = "DEX"
    /\ IF Len(d) = 3
       THEN toUpperCase(d[3]) = "SKIP"
       ELSE /\ toUpperCase(d[3]) = "PLACEORDER"
            /\ toUpperCase(d[4]) = "XPR_XMD"
            /\ toUpperCase(d[5]) \in {"BUY", "SELL"}
            /\ toUpperCase(d[6]) \in {"MARKET", "LIMIT"}
            /\ IsDigits(d[7])

(***************************************************************************)
(* Bounds and inputs                                                       *)
(***************************************************************************)
\* balances are k * 1000 XMD and k * 5000 XPR, k in 0..MaxBalanceK
MaxBalanceK == 1

\* up to MaxExtraWords words are appended to a response of the advisor
MaxExtraWords == 1

Zero == Int2Rat(0)

\* candle close prices (XMD per XPR): missing (0), 0.05, 0.0525, 0.06
MarketPrices == {Zero, Rat(5, 100), Rat(525, 10000), Rat(6, 100)}

\* prices of orders handed to DexModule.execute by other callers
DirectPrices == MarketPrices \cup {Rat(-5, 100), Rat(500005, 10000000)}

\* quantities of such orders: -5, 0, 1.23456, 100, 20000
DirectQuantities ==
    {Int2Rat(-5), Zero, Rat(123456, 100000), Int2Rat(100), Int2Rat(20000)}

\* a quantity with more decimals than the XPR precision comes with a candle price
DirectOrders ==
    {o \in DirectQuantities \X DirectPrices : IsInteger(o[1]) \/ o[2] \in MarketPrices}

\* orders handed to core/agent.ts DexModule.execute
OnChainOrders == {o \in DirectOrders : o[1].n > 0 /\ o[2].n > 0}

Canonical ==
    {<<"USE", "DEX", "placeOrder", "XPR_XMD", s, t, q>> :
        s \in {"buy", "sell"}, t \in {"limit"}, q \in {"1000", "20000"}}
    \cup {<<"USE", "DEX", "placeOrder", "XPR_XMD", "sell", "market", "5">>,
          <<"USE", "DEX", "skip">>}

\* the words a deviating response may carry at each position
Alternates(i) ==
    CASE i = 1 -> {"use", "now"}
      [] i = 2 -> {"dex", "MINT"}
      [] i = 3 -> {"PLACEORDER", "SKIP", "buy", "skip"}
      [] i = 4 -> {"xpr_xmd", "XBTC_XMD"}
      [] i = 5 -> {"BUY", "hold", ""}
      [] i = 6 -> {"LIMIT", "MARKET", "stop"}
      [] OTHER -> {"0", "1.5", "-5", "abc"}

ExtraWords == {"", "please"}

RECURSIVE Extend(_, _)
Extend(S, k) ==
    IF k = 0 THEN S
    ELSE S \cup Extend({Append(d, w) : d \in S, w \in ExtraWords}, k - 1)

\* what the advisor's completion may contain
Contents ==
    LET one == Canonical
               \cup UNION {UNION {{[d EXCEPT ![i] = w] : w \in Alternates(i)} :
                                    i \in 1..Len(d)} : d \in Canonical}
        cut == {SubSeq(d, 1, k) : d \in Canonical \ {<<"USE", "DEX", "skip">>},
                                  k \in {2, 4, 6}}
        lead == {<<"please">> \o d : d \in Canonical}
    IN  Extend(one, MaxExtraWords) \cup cut \cup lead
        \cup {<<"USE", "DEX", "buy", "now">>, <<"">>}

\* HelperAgent.discuss: content || 'No response from helper'
discuss(content) ==
    IF content = <<"">> THEN <<"No", "response", "from", "helper">> ELSE content

(***************************************************************************)
(* Market data: upstream responses of the DEX API                          *)
(***************************************************************************)
\* candles per OHLCV response
MaxCandles == 2

\* price levels per side of an order-book response
MaxLevels == 2

\* a JSON number, null (or absent), or a NaN
Num(v) == [k |-> "num", v |-> v]

Null == [k |-> "null", v |-> 0]

NaN == [k |-> "nan", v |-> 0]

\* x || 0 and the truthiness of x: null, NaN and 0 are falsy
OrZero(x) == IF x.k = "num" THEN x.v ELSE 0

RECURSIVE SeqsUpTo(_, _)
SeqsUpTo(S, k) ==
    IF k = 0 THEN {<<>>}
    ELSE LET shorter == SeqsUpTo(S, k - 1)
         IN  shorter \cup {Append(q, x) : q \in shorter, x \in S}

\* OHLCVDataPoint; prices in units of 0.0001 XMD
Candles ==
    {[open |-> Num(500), high |-> Num(540), low |-> Num(490), close |-> Num(525),
      volume |-> Num(10)],
     [open |-> Num(525), high |-> Num(600), low |-> Num(480), close |-> Num(600),
      volume |-> Num(20)],
     [open |-> Num(525), high |-> Num(610), low |-> Num(470), close |-> Num(500),
      volume |-> Null],
     [open |-> Num(500), high |-> Num(540), low |-> Num(490), close |-> Null,
      volume |-> Num(10)],
     [open |-> Num(500), high |-> Num(620), low |-> Num(460), close |-> Num(525),
      volume |-> NaN]}

NoResponse == [status |-> "none"]

ErrorResponse == [status |-> "error"]

\* GET /chart/ohlcv: the request fails, or answers with a list of candles
OHLCVResponses ==
    {ErrorResponse}
    \cup {[status |-> "ok", data |-> cs] : cs \in SeqsUpTo(Candles, MaxCandles)}

\* price levels of GET /orders/depth
Levels ==
    {[count |-> 500, bid |-> 100, ask |-> 90, quantity |-> 100],
     [count |-> 510, bid |-> 50, ask |-> 40, quantity |-> 150]}

\* GET /orders/depth: the request fails, or answers with data in which asks
\* or bids may be absent
OrderBookResponses ==
    {ErrorResponse}
    \cup {[status |-> "ok", hasAsks |-> ha, hasBids |-> hb,
           asks |-> IF ha THEN a ELSE <<>>, bids |-> IF hb THEN b ELSE <<>>] :
          ha \in BOOLEAN, hb \in BOOLEAN,
          a \in SeqsUpTo(Levels, MaxLevels), b \in SeqsUpTo(Levels, MaxLevels)}

\* GET /trades/recent: the request fails, or answers with a list of trades
TradesResponses ==
    {ErrorResponse,
     [status |-> "ok", data |-> <<>>],
     [status |-> "ok",
      data |-> <<[price |-> 505, order_side |-> 1, bid_amount |-> 10, ask_amount |-> 12]>>],
     [status |-> "ok",
      data |-> <<[price |-> 495, order_side |-> 2, bid_amount |-> 7, ask_amount |-> 9]>>]}

\* the pairs getMarketData is called with
Pairs == {"XPR_XMD", "XBTC_XMD", "FOO_BAR"}

NoDepth == [asks |-> <<>>, bids |-> <<>>]

NoSnapshot == [pair |-> ""]

NoSignals == [price_change |-> 0, volume |-> "", imbalance |-> 0, volatility |-> 0]

NoAnalysis == [trend |-> "", confidence |-> 0]

NoDecision == [module |-> "", price |-> 0]

(***************************************************************************)
(* State                                                                   *)
(***************************************************************************)
VARIABLES
    pc,             \* where the running call is suspended
    caller,         \* "guide" (AgentGuide), "direct" (DexModule.execute), "onchain"
    forceAction,    \* argument of handleDEXOperation
    validMarket,    \* price of the snapshot fetched by handleDEXOperation
    decision,       \* the advisor's response
    params,         \* the order parameters object (shared by reference)
    callerQuantity, \* params.quantity when validateOrder was entered
    balances,       \* balances fetched by validateOrder
    currentPrice,   \* price re-fetched by validateOrder
    submitted,      \* transactions handed to the chain client's transact
    callTx,         \* transact invocations of the running placeOrder call
    result,         \* what placeOrder returned
    execCalls,      \* DexModule.execute('placeOrder') calls of executeOperation
    tx,             \* record returned by getTransaction
    outcome,        \* "none", "skipped", "completed", "failed"
    error,          \* which throw ended the call
    mdPc,           \* where the running getMarketData call is suspended
    pair,           \* argument of getMarketData
    obResponse,     \* response of GET /orders/depth
    depth,          \* what getOrderBook returned
    ohlcvResponse,  \* response of GET /chart/ohlcv
    tradesResponse, \* response of GET /trades/recent
    snapshot,       \* the MarketData object getMarketData returned
    mdOutcome,      \* "none", "returned", "failed"
    cycles,         \* the step each invocation of AgentGuide.start has reached
    atPc,           \* where the running analyzeTrends call is suspended
    atForce,        \* its forceAction argument
    signals,        \* the market conditions at the time of the call
    xprBalance,     \* the XPR balance analyzeTrends found
    analysis,       \* what analyzeTrends returned
    agPc,           \* where Agent.executeLoop is suspended
    marketPrice,    \* the market price during the run of executeLoop
    aiDecision,     \* the decision makeTradeDecision returned
    executed,       \* the decisions handed to DexModule.execute
    loopPc,         \* where the main loop of the trading agent is
    retryCount,     \* its counter of consecutive failures
    lastCycle,      \* how the last executeAgent cycle ended
    mintPc,         \* where the running MintModule call is suspended
    mintOp,         \* "createCollection", "createTemplate" or "mintAsset"
    attempt,        \* loop variable of its retry loop
    existing,       \* what the collection existence check found
    broadcasts,     \* the results of the transact calls of the MintModule call
    mintResult      \* what the MintModule call returned

orderVars == <<pc, caller, forceAction, validMarket, decision, params,
               callerQuantity, balances, currentPrice, submitted, callTx, result,
               execCalls, tx, outcome, error>>

marketVars == <<mdPc, pair, obResponse, depth, ohlcvResponse, tradesResponse,
                snapshot, mdOutcome>>

trendVars == <<atPc, atForce, signals, xprBalance, analysis>>

agentVars == <<agPc, marketPrice, aiDecision, executed>>

loopVars == <<loopPc, retryCount, lastCycle>>

mintVars == <<mintPc, mintOp, attempt, existing, broadcasts, mintResult>>

auxVars == <<trendVars, agentVars, loopVars, mintVars>>

vars == <<orderVars, marketVars, cycles, auxVars>>

NoPrice == Int2Rat(-1)

NoParams ==
    [marketSymbol |-> "", market_id |-> 0, side |-> "", type |-> "",
     order_type |-> 0, quantity |-> Zero, qNaN |-> TRUE, price |-> Zero]

NoBalances == [ok |-> FALSE, hasXMD |-> FALSE, hasXPR |-> FALSE, xmd |-> 0, xpr |-> 0]

NoResult == [success |-> FALSE, transaction_id |-> 0]

NoTx == [present |-> FALSE, processed |-> FALSE, action_traces |-> <<>>]

\* GET /account/balances: the call throws (ok = FALSE) or returns a list in
\* which the XMD and the XPR entry may each be absent
BalanceResponses ==
    {NoBalances}
    \cup {[ok |-> TRUE, hasXMD |-> hx, hasXPR |-> hp,
           xmd |-> IF hx THEN 1000 * i ELSE 0, xpr |-> IF hp THEN 5000 * j ELSE 0] :
          hx \in BOOLEAN, hp \in BOOLEAN, i \in 0..MaxBalanceK, j \in 0..MaxBalanceK}

\* history_get_transaction: null, a record without `processed`, or a processed
\* record whose first action trace may lack inline traces or the order id
TxRecords ==
    {NoTx,
     [present |-> TRUE, processed |-> FALSE, action_traces |-> <<>>],
     [present |-> TRUE, processed |-> TRUE, action_traces |-> <<>>],
     [present |-> TRUE, processed |-> TRUE,
      action_traces |-> <<[inline_traces |-> <<>>]>>],
     [present |-> TRUE, processed |-> TRUE,
      action_traces |-> <<[inline_traces |-> <<[ordinal_order_id |-> 0]>>]>>],
     [present |-> TRUE, processed |-> TRUE,
      action_traces |-> <<[inline_traces |-> <<[ordinal_order_id |-> 77]>>]>>]}

Init ==
    /\ pc = "idle"
    /\ caller = "none"
    /\ forceAction = FALSE
    /\ validMarket = NoPrice
    /\ decision = <<>>
    /\ params = NoParams
    /\ callerQuantity = Zero
    /\ balances = NoBalances
    /\ currentPrice = NoPrice
    /\ submitted = <<>>
    /\ callTx = 0
    /\ result = NoResult
    /\ execCalls = 0
    /\ tx = NoTx
    /\ outcome = "none"
    /\ error = ""
    /\ mdPc = "idle"
    /\ pair = ""
    /\ obResponse = NoResponse
    /\ depth = NoDepth
    /\ ohlcvResponse = NoResponse
    /\ tradesResponse = NoResponse
    /\ snapshot = NoSnapshot
    /\ mdOutcome = "none"
    /\ cycles = <<>>
    /\ atPc = "idle"
    /\ atForce = FALSE
    /\ signals = NoSignals
    /\ xprBalance = 0
    /\ analysis = NoAnalysis
    /\ agPc = "idle"
    /\ marketPrice = 0
    /\ aiDecision = NoDecision
    /\ executed = <<>>
    /\ loopPc = [loop |-> FALSE, at |-> "start"]
    /\ retryCount = 0
    /\ lastCycle = "none"
    /\ mintPc = "idle"
    /\ mintOp = ""
    /\ attempt = 0
    /\ existing = "unknown"
    /\ broadcasts = <<>>
    /\ mintResult = "none"

(***************************************************************************)
(* AgentGuide.validateDEXOrder (ai.interface.ts)                           *)
(***************************************************************************)
validateDEXOrder(p) ==
    /\ p.marketSymbol # ""                 \* !params[param] for each required one
    /\ p.side # ""
    /\ p.type # ""
    /\ ~p.qNaN /\ p.quantity # Zero
    /\ p.price # Zero
    /\ p.market_id # 0
    /\ RLess(Zero, p.price)                \* price <= 0 is invalid
    /\ toUpperCase(p.side) \in {"BUY", "SELL"}
    /\ toUpperCase(p.type) \in {"LIMIT", "MARKET"}

\* handleDEXOperation: the order parameters parsed from a response of >= 6 words
orderParams(d, price) ==
    LET q == IF Len(d) >= 7 THEN parseInt(d[7]) ELSE [nan |-> TRUE, v |-> 0]
    IN  [marketSymbol |-> "XPR_XMD", market_id |-> 1,
         side |-> toUpperCase(d[5]), type |-> toUpperCase(d[6]),
         order_type |-> OrderType_LIMIT,
         quantity |-> Int2Rat(q.v), qNaN |-> q.nan, price |-> price]

(***************************************************************************)
(* DexModule.validateOrder (modules/dex/index.ts)                          *)
(***************************************************************************)
marketKnown(p) == p.marketSymbol \in DOMAIN MARKET_IDS

maxXMDOrder(b) == RMul(Int2Rat(b.xmd), MAX_ORDER_PERCENTAGE)

maxXPROrder(b) == RMul(Int2Rat(b.xpr), MAX_ORDER_PERCENTAGE)

\* the adjustment without the 0.99 safety factor
adjustQuantity_NoMargin(p, b) ==
    IF p.side = "BUY"
    THEN IF RLess(maxXMDOrder(b), RMul(p.quantity, p.price))
         THEN Int2Rat(Floor(RDiv(maxXMDOrder(b), p.price)))
         ELSE p.quantity
    ELSE IF RLess(maxXPROrder(b), p.quantity)
         THEN Int2Rat(Floor(maxXPROrder(b)))
         ELSE p.quantity

\* steps 4-5: the quantity validateOrder leaves in params
adjustQuantity(p, b) ==
    IF p.side = "BUY"
    THEN IF RLess(maxXMDOrder(b), RMul(p.quantity, p.price))
         THEN Int2Rat(Floor(RMul(RDiv(maxXMDOrder(b), p.price), SAFETY_MARGIN)))
         ELSE p.quantity
    ELSE LET q1 == IF RLess(maxXPROrder(b), p.quantity)
                   THEN Int2Rat(Floor(RMul(maxXPROrder(b), SAFETY_MARGIN)))
                   ELSE p.quantity
         IN  IF RLess(maxXPROrder(b), q1)
             THEN Int2Rat(Floor(RMul(maxXPROrder(b), SAFETY_MARGIN)))
             ELSE q1

\* the deviation without Math.abs: prices below the market always pass
priceDeviationTooHigh_Signed(price, cur) ==
    IF cur = Zero
    THEN RLess(Zero, price)
    ELSE RLess(MAX_PRICE_DEVIATION, RDiv(RSub(price, cur), cur))

\* Math.abs(price - currentPrice) / currentPrice > MAX_PRICE_DEVIATION, with
\* x / 0 = Infinity for x # 0 and 0 / 0 = NaN (every comparison with NaN is false)
priceDeviationTooHigh(price, cur) ==
    IF cur = Zero
    THEN price # Zero
    ELSE RLess(MAX_PRICE_DEVIATION, RDiv(RAbs(RSub(price, cur)), cur))

(***************************************************************************)
(* Transactions                                                            *)
(***************************************************************************)
\* BigNumber.toFixed(dp): the decimal string with dp places, ROUND_HALF_UP;
\* modelled by its value in units of 10^-dp
toFixed(x, dp) == RoundHalfUp(RMul(x, Int2Rat(Pow10(dp))))

\* the actions array with the placeorder action authorized by another permission
placeOrderActions_OwnerAuth(p) ==
    LET tokens == getMarketTokens(p.marketSymbol)
        tok == IF p.side = "BUY" THEN tokens.askToken ELSE tokens.bidToken
    IN  << [account |-> tok.contract,
            name |-> "transfer",
            data |-> [from |-> Account, to |-> "dex",
                      units |-> 0, precision |-> tok.precision, code |-> tok.code],
            authorization |-> ActiveAuth(Account)],
           [account |-> "dex",
            name |-> "placeorder",
            data |-> [market_id |-> p.market_id, account |-> Account],
            authorization |-> <<[actor |-> Account, permission |-> "owner"]>>] >>

\* DexModule.placeOrder (modules/dex/index.ts): the actions array
placeOrderActions(p) ==
    LET tokens == getMarketTokens(p.marketSymbol)
        bidToken == tokens.bidToken
        askToken == tokens.askToken
        requiredAmount == IF p.side = "BUY" THEN RMul(p.quantity, p.price)
                          ELSE p.quantity
        tok == IF p.side = "BUY" THEN askToken ELSE bidToken
    IN  << [account |-> tok.contract,
            name |-> "transfer",
            data |-> [from |-> Account, to |-> "dex",
                      units |-> toFixed(requiredAmount, tok.precision),
                      precision |-> tok.precision, code |-> tok.code],
            authorization |-> ActiveAuth(Account)],
           [account |-> "dex",
            name |-> "placeorder",
            data |-> [market_id |-> p.market_id, account |-> Account,
                      order_type |-> 1,
                      order_side |-> IF p.side = "BUY" THEN 1 ELSE 2,
                      quantity |-> RMul(p.quantity, Int2Rat(bidToken.multiplier)),
                      price |-> Int2Rat(RoundDown(
                                   RMul(p.price, Int2Rat(askToken.multiplier)))),
                      bid_symbol |-> bidToken.code, ask_symbol |-> askToken.code,
                      fill_type |-> 0],
            authorization |-> ActiveAuth(Account)] >>

\* DexModule.placeOrderOnChain (core/agent.ts): the actions array
placeOrderOnChainActions(p) ==
    LET market == getMarketBySymbol(p.marketSymbol)
        askToken == market.ask_token
        bidToken == market.bid_token
        safeQuantity == IF RLess(p.quantity, Int2Rat(maxQuantity))
                        THEN p.quantity ELSE Int2Rat(maxQuantity)
        sell == toUpperCase(p.side) # "BUY"
        tok == IF sell THEN bidToken ELSE askToken
    IN  << [account |-> tok.contract,
            name |-> "transfer",
            data |-> [from |-> Account, to |-> "dex",
                      units |-> toFixed(safeQuantity, tok.precision),
                      precision |-> tok.precision, code |-> tok.code],
            authorization |-> ActiveAuth(Account)],
           [account |-> "dex",
            name |-> "placeorder",
            data |-> [market_id |-> market.market_id, account |-> Account,
                      order_type |-> "LIMIT",
                      order_side |-> IF sell THEN 2 ELSE 1,
                      quantity |-> Int2Rat(RoundHalfUp(
                                      RMul(safeQuantity, Int2Rat(Pow10(tok.precision))))),
                      price |-> Int2Rat(RoundHalfUp(
                                   RMul(p.price, Int2Rat(Pow10(bidToken.precision))))),
                      bid_symbol |-> bidToken.code, ask_symbol |-> askToken.code,
                      fill_type |-> "GTC"],
            authorization |-> ActiveAuth(Account)] >>

(***************************************************************************)
(* Actions                                                                 *)
(***************************************************************************)
\* a throw that propagates to the caller of the running call
Throw(reason) ==
    /\ pc' = "done"
    /\ outcome' = "failed"
    /\ error' = reason

\* DexModule.execute('placeOrder') -> placeOrder -> validateOrder, up to the
\* balances request (step 1 of validateOrder: the market symbol)
EnterPlaceOrder(p) ==
    /\ callTx' = 0
    /\ callerQuantity' = p.quantity
    /\ balances' = NoBalances
    /\ currentPrice' = NoPrice
    /\ IF marketKnown(p)
       THEN pc' = "po_balances" /\ UNCHANGED <<outcome, error>>
       ELSE Throw("invalid_market")

\* AgentGuide.start -> handleDEXOperation(forceAction)
Start ==
    /\ pc = "idle"
    /\ \E f \in BOOLEAN : forceAction' = f
    /\ caller' = "guide"
    /\ pc' = "gde_market"
    /\ UNCHANGED <<validMarket, decision, params, callerQuantity, balances,
                   currentPrice, submitted, callTx, result, execCalls, tx,
                   outcome, error>>
    /\ UNCHANGED <<marketVars, cycles, auxVars>>

\* handleDEXOperation: dexModule.getMarketData('XPR_XMD') resolves or rejects
GuideMarketData ==
    /\ pc = "gde_market"
    /\ \/ /\ Throw("market_data")
          /\ UNCHANGED validMarket
       \/ /\ \E price \in MarketPrices : validMarket' = price
          /\ pc' = "gde_discuss"
          /\ UNCHANGED <<outcome, error>>
    /\ UNCHANGED <<caller, forceAction, decision, params, callerQuantity, balances,
                   currentPrice, submitted, callTx, result, execCalls, tx>>
    /\ UNCHANGED <<marketVars, cycles, auxVars>>

\* handleDEXOperation: helper.discuss resolves or rejects; the response is
\* checked (non-forced path only), parsed, and executeOperation is called
GuideDecision ==
    /\ pc = "gde_discuss"
    /\ \/ /\ Throw("advisor")
          /\ UNCHANGED <<decision, params>>
       \/ \E content \in Contents :
            LET d == discuss(content) IN
            /\ decision' = d
            /\ IF ~forceAction /\ ~decisionPattern(d)
               THEN Throw("decision_format") /\ UNCHANGED params
               ELSE IF ~forceAction /\ d = <<"USE", "DEX", "skip">>
               THEN /\ pc' = "done"
                    /\ outcome' = "skipped"
                    /\ UNCHANGED <<params, error>>
               ELSE IF Len(d) < 6      \* side or type undefined: TypeError
               THEN Throw("decision_parse") /\ UNCHANGED params
               ELSE /\ params' = orderParams(d, validMarket)
                    /\ pc' = "exec"
                    /\ UNCHANGED <<outcome, error>>
    /\ UNCHANGED <<caller, forceAction, validMarket, callerQuantity, balances,
                   currentPrice, submitted, callTx, result, execCalls, tx>>
    /\ UNCHANGED <<marketVars, cycles, auxVars>>

\* executeOperation: validateDEXOrder, then the first module.execute
ExecuteOperation ==
    /\ pc = "exec"
    /\ IF validateDEXOrder(params)
       THEN /\ execCalls' = 1
            /\ EnterPlaceOrder(params)
       ELSE /\ Throw("order_params")
            /\ UNCHANGED <<execCalls, callTx, callerQuantity, balances, currentPrice>>
    /\ UNCHANGED <<caller, forceAction, validMarket, decision, params, submitted,
                   result, tx>>
    /\ UNCHANGED <<marketVars, cycles, auxVars>>

\* another caller (Agent.executeLoop) hands an order to DexModule.execute
DirectExecute ==
    /\ pc = "idle"
    /\ caller' = "direct"
    /\ \E sym \in MarketSymbols, side \in {"BUY", "SELL"}, o \in DirectOrders :
       \E id \in {1} \cup {MARKET_IDS[m] : m \in {sym} \cap DOMAIN MARKET_IDS} :
         /\ params' = [marketSymbol |-> sym, market_id |-> id, side |-> side,
                       type |-> "LIMIT", order_type |-> OrderType_LIMIT,
                       quantity |-> o[1], qNaN |-> FALSE, price |-> o[2]]
         /\ EnterPlaceOrder(params')
    /\ UNCHANGED <<forceAction, validMarket, decision, submitted, result,
                   execCalls, tx>>
    /\ UNCHANGED <<marketVars, cycles, auxVars>>

\* validateOrder steps 2-5: the balances arrive; the quantity is adjusted
\* in place; then the market data is requested
ValidateBalances ==
    /\ pc = "po_balances"
    /\ \E b \in BalanceResponses :
         /\ balances' = b
         /\ IF ~b.ok
            THEN Throw("balances_fetch") /\ UNCHANGED params
            ELSE IF ~b.hasXMD \/ ~b.hasXPR
            THEN Throw("missing_balances") /\ UNCHANGED params
            ELSE /\ params' = [params EXCEPT !.quantity = adjustQuantity(params, b)]
                 /\ pc' = "po_market"
                 /\ UNCHANGED <<outcome, error>>
    /\ UNCHANGED <<caller, forceAction, validMarket, decision, callerQuantity,
                   currentPrice, submitted, callTx, result, execCalls, tx>>
    /\ UNCHANGED <<marketVars, cycles, auxVars>>

\* validateOrder price validation: getMarketData resolves or rejects; on
\* success placeOrder builds its actions and calls transact
ValidatePrice ==
    /\ pc = "po_market"
    /\ \/ /\ Throw("validate_market_data")
          /\ UNCHANGED currentPrice
       \/ \E cur \in MarketPrices :
            /\ currentPrice' = cur
            /\ IF priceDeviationTooHigh(params.price, cur)
               THEN Throw("price_deviation")
               ELSE pc' = "po_transact" /\ UNCHANGED <<outcome, error>>
    /\ UNCHANGED <<caller, forceAction, validMarket, decision, params,
                   callerQuantity, balances, submitted, callTx, result,
                   execCalls, tx>>
    /\ UNCHANGED <<marketVars, cycles, auxVars>>

\* traces[0]?.inline_traces?.[0]?.data?.ordinal_order_id (0: undefined)
ordinalId(t) ==
    IF Len(t.action_traces) = 0 THEN 0
    ELSE IF Len(t.action_traces[1].inline_traces) = 0 THEN 0
    ELSE t.action_traces[1].inline_traces[1].ordinal_order_id

\* executeOperation, line 881: module.execute(decision.action, decision.params)
\* after the placeOrder branch has completed
ExecuteAgain ==
    /\ execCalls' = execCalls + 1
    /\ EnterPlaceOrder(params)

\* placeOrder: proton.transact({ actions }) resolves or rejects; placeOrder
\* returns and its caller continues up to its next request
Transact ==
    /\ pc = "po_transact"
    /\ submitted' = Append(submitted, placeOrderActions(params))
    /\ callTx' = callTx + 1
    /\ \/ /\ Throw("transact")
          /\ UNCHANGED result
       \/ \E id \in {0, Len(submitted) + 1} :      \* 0: no transaction_id
            /\ result' = [success |-> TRUE, transaction_id |-> id]
            /\ IF caller = "guide" /\ execCalls = 1
               THEN IF id # 0
                    THEN pc' = "confirm" /\ UNCHANGED <<outcome, error>>
                    ELSE Throw("no_txid")
               ELSE /\ pc' = "done"
                    /\ outcome' = "completed"
                    /\ UNCHANGED error
    /\ UNCHANGED <<caller, forceAction, validMarket, decision, params,
                   callerQuantity, balances, currentPrice, execCalls, tx>>
    /\ UNCHANGED <<marketVars, cycles, auxVars>>

\* executeOperation: dexModule.getTransaction(txid) resolves or rejects
Confirm ==
    /\ pc = "confirm"
    /\ \/ /\ Throw("confirm_fetch")
          /\ UNCHANGED <<tx, execCalls, callTx, callerQuantity, balances, currentPrice>>
       \/ \E t \in TxRecords :
            /\ tx' = t
            /\ IF ~t.present \/ ~t.processed
               THEN /\ Throw("not_confirmed")
                    /\ UNCHANGED <<execCalls, callTx, callerQuantity, balances,
                                   currentPrice>>
               ELSE IF ordinalId(t) # 0
               THEN /\ pc' = "lifecycle"
                    /\ UNCHANGED <<execCalls, callTx, callerQuantity, balances,
                                   currentPrice, outcome, error>>
               ELSE ExecuteAgain
    /\ UNCHANGED <<caller, forceAction, validMarket, decision, params, submitted,
                   result>>
    /\ UNCHANGED <<marketVars, cycles, auxVars>>

\* executeOperation: getOrderLifecycle(ordinalId) resolves or rejects; a
\* rejection is caught and logged
Lifecycle ==
    /\ pc = "lifecycle"
    /\ \E found \in BOOLEAN : ExecuteAgain
    /\ UNCHANGED <<caller, forceAction, validMarket, decision, params, submitted,
                   result, tx>>
    /\ UNCHANGED <<marketVars, cycles, auxVars>>

\* core/agent.ts DexModule.execute('placeOrder') -> placeOrderOnChain, up to
\* api.transact; execute catches every error and returns success: false
OnChainExecute ==
    /\ pc = "idle"
    /\ caller' = "onchain"
    /\ \E sym \in {"XPR_XMD", "FOO_BAR"}, side \in {"BUY", "SELL", "buy"},
          o \in OnChainOrders :
         /\ params' = [marketSymbol |-> sym, market_id |-> 1, side |-> side,
                       type |-> "LIMIT", order_type |-> OrderType_LIMIT,
                       quantity |-> o[1], qNaN |-> FALSE, price |-> o[2]]
         /\ IF getMarketBySymbol(sym).found
            THEN pc' = "oc_transact" /\ UNCHANGED <<outcome, error>>
            ELSE Throw("no_market")
    /\ UNCHANGED <<forceAction, validMarket, decision, callerQuantity, balances,
                   currentPrice, submitted, callTx, result, execCalls, tx>>
    /\ UNCHANGED <<marketVars, cycles, auxVars>>

\* placeOrderOnChain: api.transact resolves or rejects
OnChainTransact ==
    /\ pc = "oc_transact"
    /\ submitted' = Append(submitted, placeOrderOnChainActions(params))
    /\ callTx' = callTx + 1
    /\ \/ /\ Throw("transact")
          /\ UNCHANGED result
       \/ \E id \in {0, Len(submitted) + 1} :
            /\ result' = [success |-> TRUE, transaction_id |-> id]
            /\ pc' = "done"
            /\ outcome' = "completed"
            /\ UNCHANGED error
    /\ UNCHANGED <<caller, forceAction, validMarket, decision, params,
                   callerQuantity, balances, currentPrice, execCalls, tx>>
    /\ UNCHANGED <<marketVars, cycles, auxVars>>

Next ==
    \/ Start
    \/ GuideMarketData
    \/ GuideDecision
    \/ ExecuteOperation
    \/ DirectExecute
    \/ ValidateBalances
    \/ ValidatePrice
    \/ Transact
    \/ Confirm
    \/ Lifecycle
    \/ OnChainExecute
    \/ OnChainTransact

Spec == Init /\ [][Next]_vars

(***************************************************************************)
(* DexModule.getMarketData (modules/dex/index.ts)                          *)
(***************************************************************************)
\* getOrderBook: what is returned for a response without asks or without bids
PlaceholderDepth ==
    [asks |-> <<[price |-> 0, size |-> 0, total |-> 0]>>,
     bids |-> <<[price |-> 0, size |-> 0, total |-> 0]>>]

\* getOrderBook: count is the price level; bid is the size of an ask, ask the
\* size of a bid; quantity is the total
mapLevels(levels, side) ==
    [i \in 1..Len(levels) |->
        [price |-> levels[i].count,
         size |-> IF side = "asks" THEN levels[i].bid ELSE levels[i].ask,
         total |-> levels[i].quantity]]

\* getOrderBook: a failed request is rethrown; the response is mapped in the
\* order it came in
getOrderBook(resp) ==
    IF resp.status = "error"
    THEN [throws |-> TRUE, depth |-> NoDepth]
    ELSE IF ~resp.hasAsks \/ ~resp.hasBids
    THEN [throws |-> FALSE, depth |-> PlaceholderDepth]
    ELSE [throws |-> FALSE,
          depth |-> [asks |-> mapLevels(resp.asks, "asks"),
                     bids |-> mapLevels(resp.bids, "bids")]]

mapTrades(data) ==
    [i \in 1..Len(data) |->
        [price |-> data[i].price,
         quantity |-> IF data[i].order_side = 1 THEN data[i].bid_amount
                      ELSE data[i].ask_amount,
         side |-> IF data[i].order_side = 1 THEN "BUY" ELSE "SELL"]]

\* getRecentTrades with a catch block that rethrows
getRecentTrades_Rethrow(resp) ==
    IF resp.status = "error"
    THEN [throws |-> TRUE, trades |-> <<>>]
    ELSE [throws |-> FALSE, trades |-> mapTrades(resp.data)]

\* getRecentTrades: a failed request is logged and an empty list returned
getRecentTrades(resp) ==
    IF resp.status = "error"
    THEN [throws |-> FALSE, trades |-> <<>>]
    ELSE [throws |-> FALSE, trades |-> mapTrades(resp.data)]

\* getMarketData: Number(((close - open) / open * 100).toFixed(2)), in
\* hundredths of a percent; 0 when close or open is falsy
priceChange(c) ==
    IF OrZero(c.close) # 0 /\ OrZero(c.open) # 0
    THEN toFixed(Rat((c.close.v - c.open.v) * 100, c.open.v), 2)
    ELSE 0

\* getMarketData: the object returned, built from the first candle
marketData(p, d, latestCandle, trades) ==
    [pair |-> p,
     price |-> OrZero(latestCandle.close),
     priceChange |-> priceChange(latestCandle),
     volume |-> OrZero(latestCandle.volume),
     depth |-> d,
     ohlcv |-> [open |-> OrZero(latestCandle.open),
                high |-> OrZero(latestCandle.high),
                low |-> OrZero(latestCandle.low),
                close |-> OrZero(latestCandle.close),
                volume |-> OrZero(latestCandle.volume),
                price_change |-> priceChange(latestCandle),
                volume_weighted_price |-> 0],
     trades |-> trades]

\* the error is logged and rethrown
MarketDataFails ==
    /\ mdPc' = "done"
    /\ mdOutcome' = "failed"

\* getMarketData(pair), up to the order-book request
GetMarketData ==
    /\ mdPc = "idle"
    /\ \E p \in Pairs : pair' = p
    /\ mdPc' = "md_depth"
    /\ UNCHANGED <<obResponse, depth, ohlcvResponse, tradesResponse, snapshot,
                   mdOutcome>>
    /\ UNCHANGED <<orderVars, cycles, auxVars>>

\* getOrderBook answers or fails; then the OHLCV request is sent
FetchOrderBook ==
    /\ mdPc = "md_depth"
    /\ \E resp \in OrderBookResponses :
         LET ob == getOrderBook(resp) IN
         /\ obResponse' = resp
         /\ IF ob.throws
            THEN MarketDataFails /\ UNCHANGED depth
            ELSE /\ depth' = ob.depth
                 /\ mdPc' = "md_ohlcv"
                 /\ UNCHANGED mdOutcome
    /\ UNCHANGED <<pair, ohlcvResponse, tradesResponse, snapshot>>
    /\ UNCHANGED <<orderVars, cycles, auxVars>>

\* the OHLCV request answers or fails; the first candle is read (a TypeError
\* when there is none); then the recent trades are requested
FetchOHLCV ==
    /\ mdPc = "md_ohlcv"
    /\ \E resp \in OHLCVResponses :
         /\ ohlcvResponse' = resp
         /\ IF resp.status = "error" \/ Len(resp.data) = 0
            THEN MarketDataFails
            ELSE mdPc' = "md_trades" /\ UNCHANGED mdOutcome
    /\ UNCHANGED <<pair, obResponse, depth, tradesResponse, snapshot>>
    /\ UNCHANGED <<orderVars, cycles, auxVars>>

\* getRecentTrades returns; getMarketData returns the snapshot
FetchTrades ==
    /\ mdPc = "md_trades"
    /\ \E resp \in TradesResponses :
         LET t == getRecentTrades(resp) IN
         /\ tradesResponse' = resp
         /\ IF t.throws
            THEN MarketDataFails /\ UNCHANGED snapshot
            ELSE /\ snapshot' = marketData(pair, depth, ohlcvResponse.data[1], t.trades)
                 /\ mdPc' = "done"
                 /\ mdOutcome' = "returned"
    /\ UNCHANGED <<pair, obResponse, depth, ohlcvResponse>>
    /\ UNCHANGED <<orderVars, cycles, auxVars>>

NextMarket ==
    \/ GetMarketData
    \/ FetchOrderBook
    \/ FetchOHLCV
    \/ FetchTrades

SpecMarket == Init /\ [][NextMarket]_vars

(***************************************************************************)
(* Invocations of AgentGuide.start on one AgentGuide object                *)
(***************************************************************************)
\* invocations of start
MaxInvocations == 2

\* the steps at which a cycle has ended
Ended == {"skipped", "completed", "failed"}

\* the await a cycle is suspended at, and where it may be suspended next:
\* start (analyzeIntent / helper.discuss), handleDEXOperation (getMarketData,
\* helper.discuss), executeOperation with both calls of module.execute
\* (validateOrder's getAccountBalances and getMarketData, transact) and the
\* confirmation in between (getTransaction, getOrderLifecycle)
NextSteps(step) ==
    CASE step = "intent" -> {"market", "failed"}
      [] step = "market" -> {"discuss", "failed"}
      [] step = "discuss" -> {"balances", "skipped", "failed"}
      [] step = "balances" -> {"price", "failed"}
      [] step = "price" -> {"transact", "failed"}
      [] step = "transact" -> {"confirm", "failed"}
      [] step = "confirm" -> {"lifecycle", "balances_again", "failed"}
      [] step = "lifecycle" -> {"balances_again"}
      [] step = "balances_again" -> {"price_again", "failed"}
      [] step = "price_again" -> {"transact_again", "failed"}
      [] step = "transact_again" -> {"completed", "failed"}
      [] OTHER -> {}

\* start(input, autoMode, forceAction) is called: with forceAction it calls
\* handleDEXOperation at once, which requests the market data; otherwise the
\* helper is asked first.  No state of the object is consulted.
InvokeStart ==
    /\ Len(cycles) < MaxInvocations
    /\ \E force \in BOOLEAN :
         cycles' = Append(cycles, IF force THEN "market" ELSE "intent")
    /\ UNCHANGED <<orderVars, marketVars, auxVars>>

\* the promise a cycle awaits settles and the cycle runs to its next await
CycleStep ==
    /\ \E i \in 1..Len(cycles) :
         \E step \in NextSteps(cycles[i]) :
            cycles' = [cycles EXCEPT ![i] = step]
    /\ UNCHANGED <<orderVars, marketVars, auxVars>>

NextCycles ==
    \/ InvokeStart
    \/ CycleStep

SpecCycles == Init /\ [][NextCycles]_vars

(***************************************************************************)
(* DexModule.analyzeTrends (modules/dex/index.ts)                          *)
(***************************************************************************)
\* market conditions: 24h price change in percent, volume against its
\* average, sign of the order-book imbalance, daily volatility in 1/10000
SignalSets ==
    [price_change : {-3, 3}, volume : {"increasing", "decreasing"},
     imbalance : {-1, 1}, volatility : {100, 500}]

\* Math.min(Math.max(xprBalance * RISK_PERCENTAGE / 100, MIN), MAX)
tradeSize(xpr) ==
    LET risk == Rat(xpr * RISK_PERCENTAGE, 100)
        atLeast == IF RLess(risk, Int2Rat(MIN_XPR_AMOUNT))
                   THEN Int2Rat(MIN_XPR_AMOUNT) ELSE risk
    IN  IF RLess(Int2Rat(MAX_XPR_AMOUNT), atLeast)
        THEN Int2Rat(MAX_XPR_AMOUNT) ELSE atLeast

\* determineOverallTrend: the vote of the four signals; the confidence is
\* Math.abs(bullishRatio - 0.5) * 200
determineOverallTrend(priceAction, volume, orderBook, volatility) ==
    LET bullishSignals ==
            (IF priceAction.trend = "upward" THEN 1 ELSE 0)
            + (IF volume.trend = "increasing" THEN 1 ELSE 0)
            + (IF orderBook.imbalance > 0 THEN 1 ELSE 0)
            + (IF volatility.daily < 200 THEN 1 ELSE 0)
        totalSignals == 4
    IN  [trend |-> IF 10 * bullishSignals > 6 * totalSignals THEN "bullish"
                   ELSE IF 10 * bullishSignals < 4 * totalSignals THEN "bearish"
                   ELSE "neutral",
         confidence |-> (Abs(2 * bullishSignals - totalSignals) * 100) \div totalSignals]

\* analyzeTrends: what is returned once the balance and the order book are
\* there; random is the outcome of Math.random() > 0.5
analyzeTrendsResult(force, random, xpr) ==
    IF force
    THEN [trend |-> IF random THEN "bullish" ELSE "bearish", confidence |-> 95,
          suggestedSize |-> tradeSize(xpr)]
    ELSE [trend |-> "neutral", confidence |-> 0, suggestedSize |-> Zero]

\* analyzeTrends(pair, timeframe, forceAction), up to the balances request
AnalyzeTrends ==
    /\ atPc = "idle"
    /\ \E f \in BOOLEAN, sig \in SignalSets :
         /\ atForce' = f
         /\ signals' = sig
    /\ atPc' = "at_balances"
    /\ UNCHANGED <<xprBalance, analysis>>
    /\ UNCHANGED <<orderVars, marketVars, cycles, agentVars, loopVars, mintVars>>

\* getAccountBalances answers or fails; then the order book is requested
TrendsBalances ==
    /\ atPc = "at_balances"
    /\ \E b \in BalanceResponses :
         IF b.ok
         THEN /\ xprBalance' = (IF b.hasXPR THEN b.xpr ELSE 0)
              /\ atPc' = "at_depth"
              /\ UNCHANGED analysis
         ELSE /\ atPc' = "done"
              /\ analysis' = [trend |-> "error", confidence |-> 0]
              /\ UNCHANGED xprBalance
    /\ UNCHANGED <<atForce, signals>>
    /\ UNCHANGED <<orderVars, marketVars, cycles, agentVars, loopVars, mintVars>>

\* getOrderBook returns or throws; analyzeTrends returns
TrendsOrderBook ==
    /\ atPc = "at_depth"
    /\ \E resp \in OrderBookResponses, random \in BOOLEAN :
         analysis' = IF getOrderBook(resp).throws
                     THEN [trend |-> "error", confidence |-> 0]
                     ELSE analyzeTrendsResult(atForce, random, xprBalance)
    /\ atPc' = "done"
    /\ UNCHANGED <<atForce, signals, xprBalance>>
    /\ UNCHANGED <<orderVars, marketVars, cycles, agentVars, loopVars, mintVars>>

NextTrends ==
    \/ AnalyzeTrends
    \/ TrendsBalances
    \/ TrendsOrderBook

SpecTrends == Init /\ [][NextTrends]_vars

(***************************************************************************)
(* Agent.executeLoop (core/agent.ts)                                       *)
(***************************************************************************)
\* market prices and proposed prices, in units of 0.0001
AgentPrices == {500, 1000, 2000}

ProposedPrices == {0, 500, 525, 526, 1050, 3000}

\* the decisions JSON.parse may give
Decisions ==
    [module : {"DEX", "GECKO"}, side : {"BUY", "SELL"}, price : ProposedPrices]

\* proposedPrice > marketData.price * 1.05
aboveMaxAllowedPrice(proposedPrice, price) == 100 * proposedPrice > 105 * price

\* executeLoop is called; makeTradeDecision requests the price for its prompt
ExecuteLoop ==
    /\ agPc = "idle"
    /\ \E price \in AgentPrices : marketPrice' = price
    /\ agPc' = "decide"
    /\ UNCHANGED <<aiDecision, executed>>
    /\ UNCHANGED <<orderVars, marketVars, cycles, trendVars, loopVars, mintVars>>

\* makeTradeDecision: the completion fails, is empty or is not JSON (the
\* error is caught and logged by executeLoop), or parses to a decision;
\* for a DEX decision the price is requested again
MakeTradeDecision ==
    /\ agPc = "decide"
    /\ \/ /\ agPc' = "done"
          /\ UNCHANGED aiDecision
       \/ \E d \in Decisions :
            /\ aiDecision' = d
            /\ agPc' = IF d.module = "DEX" THEN "check" ELSE "done"
    /\ UNCHANGED <<marketPrice, executed>>
    /\ UNCHANGED <<orderVars, marketVars, cycles, trendVars, loopVars, mintVars>>

\* getMarketData returns the price data or null; with data a price more
\* than 5% above the market is rejected; otherwise dexModule.execute is called
CheckPrice ==
    /\ agPc = "check"
    /\ \E hasMarketData \in BOOLEAN :
         IF hasMarketData /\ aboveMaxAllowedPrice(aiDecision.price, marketPrice)
         THEN /\ agPc' = "done"
              /\ UNCHANGED executed
         ELSE /\ executed' = Append(executed, aiDecision)
              /\ agPc' = "execute"
    /\ UNCHANGED <<marketPrice, aiDecision>>
    /\ UNCHANGED <<orderVars, marketVars, cycles, trendVars, loopVars, mintVars>>

\* dexModule.execute resolves or rejects; the result or the error is logged
DexExecuted ==
    /\ agPc = "execute"
    /\ agPc' = "done"
    /\ UNCHANGED <<marketPrice, aiDecision, executed>>
    /\ UNCHANGED <<orderVars, marketVars, cycles, trendVars, loopVars, mintVars>>

NextAgent ==
    \/ ExecuteLoop
    \/ MakeTradeDecision
    \/ CheckPrice
    \/ DexExecuted

SpecAgent == Init /\ [][NextAgent]_vars

(***************************************************************************)
(* main and executeAgent of the trading agent (unnamed/part_013)           *)
(***************************************************************************)
\* the errors executeAgent catches: data fetches, the AI call, the trade
CycleErrors == {"data_error", "ai_error", "trade_error"}

\* executeAgent ends.  An error of the cycle was caught and logged inside
\* executeAgent, which then resolves; executeAgent rejects only when the
\* logging in its catch block throws (rejects = TRUE).  main resets
\* retryCount when executeAgent resolved and counts up when it rejected.
CycleEnds(kind, rejects) ==
    /\ lastCycle' = kind
    /\ IF ~loopPc.loop
       THEN /\ loopPc' = [loopPc EXCEPT !.at = "finished"]
            /\ UNCHANGED retryCount
       ELSE IF ~rejects
       THEN /\ retryCount' = 0
            /\ loopPc' = [loopPc EXCEPT !.at = "wait"]
       ELSE /\ retryCount' = retryCount + 1
            /\ loopPc' = [loopPc EXCEPT !.at =
                             IF retryCount + 1 >= maxRetries THEN "exited" ELSE "wait"]

\* main: the database is opened; with delaySeconds > 0 the loop is entered,
\* otherwise executeAgent runs once
Main ==
    /\ loopPc.at = "start"
    /\ \E loop \in BOOLEAN : loopPc' = [loop |-> loop, at |-> "fetch"]
    /\ UNCHANGED <<retryCount, lastCycle>>
    /\ UNCHANGED <<orderVars, marketVars, cycles, trendVars, agentVars, mintVars>>

\* executeAgent: market data, balances and history are fetched and stored
FetchData ==
    /\ loopPc.at = "fetch"
    /\ \/ /\ loopPc' = [loopPc EXCEPT !.at = "ai"]
          /\ UNCHANGED <<retryCount, lastCycle>>
       \/ \E rejects \in BOOLEAN : CycleEnds("data_error", rejects)
    /\ UNCHANGED <<orderVars, marketVars, cycles, trendVars, agentVars, mintVars>>

\* executeAgent: getAIDecision and parseAIDecision
GetAIDecision ==
    /\ loopPc.at = "ai"
    /\ \/ /\ loopPc' = [loopPc EXCEPT !.at = "trade"]
          /\ UNCHANGED <<retryCount, lastCycle>>
       \/ CycleEnds("no_decision", FALSE)
       \/ \E rejects \in BOOLEAN : CycleEnds("ai_error", rejects)
    /\ UNCHANGED <<orderVars, marketVars, cycles, trendVars, agentVars, mintVars>>

\* executeAgent: the decisions are executed (or declined by the user)
ExecuteTrades ==
    /\ loopPc.at = "trade"
    /\ \/ CycleEnds("ok", FALSE)
       \/ \E rejects \in BOOLEAN : CycleEnds("trade_error", rejects)
    /\ UNCHANGED <<orderVars, marketVars, cycles, trendVars, agentVars, mintVars>>

\* main: the delay before the next run has passed
NextRun ==
    /\ loopPc.at = "wait"
    /\ loopPc' = [loopPc EXCEPT !.at = "fetch"]
    /\ UNCHANGED <<retryCount, lastCycle>>
    /\ UNCHANGED <<orderVars, marketVars, cycles, trendVars, agentVars, mintVars>>

NextLoop ==
    \/ Main
    \/ FetchData
    \/ GetAIDecision
    \/ ExecuteTrades
    \/ NextRun

\* the event loop runs every promise that settles and every timer that fires
SpecLoop == Init /\ [][NextLoop]_vars /\ WF_vars(NextLoop)

(***************************************************************************)
(* MintModule.createCollection, createTemplate, mintAsset                  *)
(*                                                    (unnamed/part_012)   *)
(***************************************************************************)
\* api.transact rejects, resolves without a processed receipt, or resolves
\* with one; the receipt of createtempl / mintasset may lack the new id
TransactOutcomes(op) ==
    {"rejected", "unprocessed", "processed"}
    \cup (IF op = "createCollection" THEN {} ELSE {"processed_no_id"})

\* the catch block of the retry loop: wait and try again, or give up
AttemptFails ==
    IF attempt < MAX_RETRIES
    THEN mintPc' = "delay" /\ UNCHANGED mintResult
    ELSE mintPc' = "done" /\ mintResult' = "failure"

\* execute(action, params) reaches one of the three operations
MintCall ==
    /\ mintPc = "idle"
    /\ \E op \in {"createCollection", "createTemplate", "mintAsset"} :
         /\ mintOp' = op
         /\ IF op = "createCollection"
            THEN mintPc' = "check" /\ UNCHANGED attempt
            ELSE mintPc' = "transact" /\ attempt' = 1
    /\ UNCHANGED <<existing, broadcasts, mintResult>>
    /\ UNCHANGED <<orderVars, marketVars, cycles, trendVars, agentVars, loopVars>>

\* createCollection: get_table_rows rejects or answers; an existing
\* collection is reused when the account is authorized; the error thrown
\* when it is not is caught together with the errors of the query
CheckCollection ==
    /\ mintPc = "check"
    /\ \E found \in {"check_failed", "absent", "authorized", "unauthorized"} :
         /\ existing' = found
         /\ IF found = "authorized"
            THEN /\ mintPc' = "done"
                 /\ mintResult' = "reused"
                 /\ UNCHANGED attempt
            ELSE /\ mintPc' = "transact"
                 /\ attempt' = 1
                 /\ UNCHANGED mintResult
    /\ UNCHANGED <<mintOp, broadcasts>>
    /\ UNCHANGED <<orderVars, marketVars, cycles, trendVars, agentVars, loopVars>>

\* one attempt of the retry loop: api.transact({ actions: [action] }), the
\* checks of its receipt, and recordAction, which only logs and never throws
MintTransact ==
    /\ mintPc = "transact"
    /\ \E receipt \in TransactOutcomes(mintOp) :
         /\ broadcasts' = Append(broadcasts, receipt)
         /\ IF receipt = "processed"
            THEN mintPc' = "done" /\ mintResult' = "success"
            ELSE AttemptFails
    /\ UNCHANGED <<mintOp, attempt, existing>>
    /\ UNCHANGED <<orderVars, marketVars, cycles, trendVars, agentVars, loopVars>>

\* RETRY_DELAY * attempt has passed: continue with the next attempt
RetryDelay ==
    /\ mintPc = "delay"
    /\ attempt' = attempt + 1
    /\ mintPc' = "transact"
    /\ UNCHANGED <<mintOp, existing, broadcasts, mintResult>>
    /\ UNCHANGED <<orderVars, marketVars, cycles, trendVars, agentVars, loopVars>>

NextMint ==
    \/ MintCall
    \/ CheckCollection
    \/ MintTransact
    \/ RetryDelay

SpecMint == Init /\ [][NextMint]_vars

(***************************************************************************)
(* Properties                                                              *)
(***************************************************************************)
FromPlaceOrder == caller \in {"guide", "direct"}

LastSubmitted == submitted[Len(submitted)]

\* C1: one call of executeOperation with a placeOrder decision hands at most
\* one transaction to the chain client, on every path.
C1_SubmittedAtMostOnce ==
    caller = "guide" => Len(submitted) <= 1

\* C2: when validateOrder returns without error, an order whose notional
\* exceeded 5% of the relevant balance (XMD for BUY, XPR otherwise) has a
\* quantity strictly below the caller's and a notional of at most 0.99 x the
\* cap; and no order's notional exceeds the cap.
C2_ClampedBelowCap ==
    (FromPlaceOrder /\ pc = "po_transact") =>
        LET buy == params.side = "BUY"
            cap == IF buy THEN Rat(5 * balances.xmd, 100)
                   ELSE Rat(5 * balances.xpr, 100)
            notionalIn == IF buy THEN RMul(callerQuantity, params.price)
                          ELSE callerQuantity
            notionalOut == IF buy THEN RMul(params.quantity, params.price)
                           ELSE params.quantity
        IN  /\ RLeq(notionalOut, cap)
            /\ RLess(cap, notionalIn) =>
                  /\ RLess(params.quantity, callerQuantity)
                  /\ RLeq(RMul(notionalOut, Int2Rat(100)), RMul(cap, Int2Rat(99)))

\* the spec's end-to-end scenario: BUY 20000 at 0.05 with 1000 XMD leaves 990
C2_Witness ==
    /\ FromPlaceOrder /\ pc = "po_transact"
    /\ params.side = "BUY" /\ params.price = Rat(5, 100)
    /\ balances.xmd = 1000
    /\ callerQuantity = Int2Rat(20000)
    /\ params.quantity = Int2Rat(990)

\* the order price is more than 5% away from the price validateOrder fetched
\* (a zero market price makes the quotient Infinity for a nonzero order price)
DeviatesOver5Percent(price, cur) ==
    IF cur.n = 0 THEN price.n # 0
    ELSE RLess(cur, RMul(RAbs(RSub(price, cur)), Int2Rat(20)))

\* C3: once validateOrder has re-fetched the market price, an order price
\* deviating from it by more than 5% makes placeOrder fail, and the call
\* hands no transaction to the chain client.
C3_DeviationRejected ==
    (FromPlaceOrder /\ currentPrice # NoPrice
       /\ DeviatesOver5Percent(params.price, currentPrice)) =>
        /\ pc = "done" /\ outcome = "failed"
        /\ callTx = 0

C3_Witness ==
    /\ FromPlaceOrder /\ error = "price_deviation"
    /\ params.price = Rat(5, 100) /\ currentPrice = Rat(6, 100)
    /\ callTx = 0

\* C4: when validateOrder rejects an order for its price deviation, the
\* caller's quantity is what it was before the call.
C4_NoClampOnRejection ==
    (FromPlaceOrder /\ error = "price_deviation") => params.quantity = callerQuantity

\* the response grammar, letter case aside:
\* USE DEX placeOrder XPR_XMD <buy|sell> <market|limit> <integer> | USE DEX skip
InGrammar(d) ==
    LET up == [i \in 1..Len(d) |-> toUpperCase(d[i])]
    IN  \/ up = <<"USE", "DEX", "SKIP">>
        \/ \E s \in {"BUY", "SELL"}, t \in {"MARKET", "LIMIT"},
              q \in {"0", "5", "1000", "20000"} :
             up = <<"USE", "DEX", "PLACEORDER", "XPR_XMD", s, t, q>>

\* C5: in the non-forced path every response outside the grammar ends the
\* cycle with an error, and no order is placed.
C5_MalformedRejected ==
    (caller = "guide" /\ ~forceAction /\ decision # <<>> /\ ~InGrammar(decision)) =>
        /\ pc = "done" /\ outcome = "failed"
        /\ execCalls = 0 /\ submitted = <<>>

C5_Witness ==
    /\ caller = "guide" /\ ~forceAction
    /\ decision = <<"USE", "DEX", "placeOrder", "XPR_XMD", "buy", "limit", "1000", "please">>
    /\ error = "decision_format" /\ submitted = <<>>

\* C6: on every path, the forced one included, an order is executed only for
\* a response that matches the full grammar.
C6_ExecutedOnlyIfValidated ==
    (caller = "guide" /\ (pc = "exec" \/ submitted # <<>>)) => InGrammar(decision)

\* C7: a cycle that fails in the market-data fetch, the advisor call, the
\* decision check or the order validation has not called transact.
C7_NoTransactOnEarlyFailure ==
    (caller = "guide" /\ outcome = "failed"
       /\ error \in {"market_data", "advisor", "decision_format", "decision_parse",
                     "order_params", "invalid_market", "missing_balances",
                     "price_deviation"}) =>
        submitted = <<>>

\* C8: every transaction handed to transact is a 'transfer' to 'dex' followed
\* by a 'placeorder' on 'dex', both authorized by the account's active permission.
C8_TwoActionsSameAuth ==
    \A i \in 1..Len(submitted) :
        LET a == submitted[i] IN
        /\ Len(a) = 2
        /\ a[1].name = "transfer" /\ a[1].data.from = Account /\ a[1].data.to = "dex"
        /\ a[2].name = "placeorder" /\ a[2].account = "dex"
        /\ a[1].authorization = <<[actor |-> Account, permission |-> "active"]>>
        /\ a[2].authorization = a[1].authorization

C8_Witness ==
    /\ caller = "guide" /\ Len(submitted) = 1 /\ pc = "confirm"
    /\ submitted[1][1].authorization = submitted[1][2].authorization

\* the transfer moves `amount` of the token, within one unit of its precision
Transfers(a, amount, contract, code, precision) ==
    /\ a.account = contract /\ a.data.code = code /\ a.data.precision = precision
    /\ LET exact == RMul(amount, Int2Rat(Pow10(precision)))
       IN  /\ RLess(RSub(exact, Int2Rat(1)), Int2Rat(a.data.units))
           /\ RLess(Int2Rat(a.data.units), RSub(exact, Int2Rat(-1)))

\* C9: the transfer of a submitted order moves quantity x price XMD on xmd.token
\* for BUY, and quantity XPR on eosio.token for SELL.
C9_TransferIsNotional ==
    callTx = 1 =>
        IF toUpperCase(params.side) = "BUY"
        THEN Transfers(LastSubmitted[1], RMul(params.quantity, params.price),
                       "xmd.token", "XMD", 6)
        ELSE Transfers(LastSubmitted[1], params.quantity, "eosio.token", "XPR", 4)

\* s is the integer floor(v * 10^k) for the precision k of one of the tokens
IsFloorScaled(s, v) ==
    /\ IsInteger(s)
    /\ \E k \in {4, 6} : s.n = Floor(RMul(v, Int2Rat(Pow10(k))))

\* C10: the quantity and price strings of the placeorder action are the
\* integers floor(value x 10^precision).
C10_ScaledByFloor ==
    callTx = 1 =>
        /\ IsFloorScaled(LastSubmitted[2].data.quantity, params.quantity)
        /\ IsFloorScaled(LastSubmitted[2].data.price, params.price)

\* C11: every order that placeOrder hands to transact has a size, in XPR,
\* within [MIN_XPR_AMOUNT, MAX_XPR_AMOUNT], whatever the balances are.
C11_WithinAbsoluteBounds ==
    (FromPlaceOrder /\ callTx >= 1) =>
        /\ RLeq(Int2Rat(MIN_XPR_AMOUNT), params.quantity)
        /\ RLeq(params.quantity, Int2Rat(MAX_XPR_AMOUNT))

\* C12: getMarketData returns no snapshot for a pair outside the allow-list
\* of trusted markets.
C12_UntrustedPairRejected ==
    mdOutcome = "returned" => pair \in TRUSTED_MARKETS

\* C18: a snapshot is returned only when the order-book request and the
\* OHLCV request both succeeded; a failure of the recent-trades request alone
\* does not fail the call, the snapshot then has an empty trades list.
C18_PartialFailure ==
    /\ mdOutcome = "returned" =>
          obResponse.status = "ok" /\ ohlcvResponse.status = "ok"
    /\ tradesResponse.status = "error" =>
          mdOutcome = "returned" /\ snapshot.trades = <<>>

C18_Witness ==
    /\ mdOutcome = "returned"
    /\ obResponse.status = "ok" /\ ohlcvResponse.status = "ok"
    /\ tradesResponse.status = "error"
    /\ snapshot.trades = <<>> /\ snapshot.price = 525

\* C19: no snapshot is returned when the order-book response lacks asks or
\* bids, or the candle the price is read from has no close price.
C19_MissingFieldsFail ==
    mdOutcome = "returned" =>
        /\ obResponse.hasAsks /\ obResponse.hasBids
        /\ ohlcvResponse.data[1].close.k = "num"

\* the candles of a response whose volume is neither null nor NaN
ValidCandles(cs) == SelectSeq(cs, LAMBDA c : c.volume.k = "num")

RECURSIVE MaxOver(_, _, _)
MaxOver(cs, f, i) ==
    IF i = Len(cs) THEN OrZero(cs[i][f])
    ELSE LET rest == MaxOver(cs, f, i + 1)
         IN  IF OrZero(cs[i][f]) > rest THEN OrZero(cs[i][f]) ELSE rest

RECURSIVE MinOver(_, _, _)
MinOver(cs, f, i) ==
    IF i = Len(cs) THEN OrZero(cs[i][f])
    ELSE LET rest == MinOver(cs, f, i + 1)
         IN  IF OrZero(cs[i][f]) < rest THEN OrZero(cs[i][f]) ELSE rest

RECURSIVE SumOver(_, _, _)
SumOver(cs, f, i) ==
    IF i > Len(cs) THEN 0 ELSE OrZero(cs[i][f]) + SumOver(cs, f, i + 1)

\* C20: the OHLCV part of a returned snapshot aggregates the valid candles of
\* the response: first open, highest high, lowest low, last close, summed volume.
C20_OHLCVIsAggregate ==
    (mdOutcome = "returned" /\ Len(ValidCandles(ohlcvResponse.data)) > 0) =>
        LET valid == ValidCandles(ohlcvResponse.data) IN
        /\ snapshot.ohlcv.open = OrZero(valid[1].open)
        /\ snapshot.ohlcv.high = MaxOver(valid, "high", 1)
        /\ snapshot.ohlcv.low = MinOver(valid, "low", 1)
        /\ snapshot.ohlcv.close = OrZero(valid[Len(valid)].close)
        /\ snapshot.ohlcv.volume = SumOver(valid, "volume", 1)

\* C13: a fetched transaction record without `processed` does not end the
\* cycle in failure: the record is fetched again.
C13_UnprocessedIsRetried ==
    (caller = "guide" /\ tx.present /\ ~tx.processed) =>
        ~(pc = "done" /\ outcome = "failed")

\* C14: when transact returned a transaction id and the confirmation could
\* not be obtained, the outcome of executeOperation is not the outcome of a
\* failed submission.
C14_UnconfirmedIsDistinct ==
    (caller = "guide" /\ result.success /\ result.transaction_id # 0
       /\ error \in {"confirm_fetch", "not_confirmed"}) =>
        outcome # "failed"

\* C15: placeOrder reports success only together with a transaction id.
C15_SuccessHasTransactionId ==
    result.success => result.transaction_id # 0

\* C16: for a confirmed record whose first action trace has no inline traces,
\* executeOperation ends without error.
C16_NoInlineTracesIsNotFatal ==
    (caller = "guide" /\ pc = "done" /\ tx.processed
       /\ Len(tx.action_traces) > 0
       /\ Len(tx.action_traces[1].inline_traces) = 0) =>
        outcome = "completed"

\* C17: at most one decision cycle is in flight: no cycle has started its
\* market-data fetch while another one that started it has not ended.
C17_OneCycleInFlight ==
    \A i, j \in 1..Len(cycles) :
        (i # j /\ cycles[i] \notin Ended \cup {"intent"}) =>
            cycles[j] \in Ended \cup {"intent"}

\* the prices of the levels never decrease (dir = 1) or never increase (dir = -1)
SortedByPrice(levels, dir) ==
    \A i \in 1..(Len(levels) - 1) : dir * levels[i].price <= dir * levels[i + 1].price

\* C21: the depth getOrderBook returns has its bids in descending and its
\* asks in ascending order of price, whatever order the response had.
C21_DepthSorted ==
    /\ SortedByPrice(depth.asks, 1)
    /\ SortedByPrice(depth.bids, -1)

\* C23: a skip response that passes the decision-format check, in any letter
\* case, ends the cycle without an order and without an error.
C23_SkipEndsWithoutTrade ==
    (caller = "guide" /\ ~forceAction /\ Len(decision) = 3
       /\ decisionPattern(decision)) =>
        /\ outcome = "skipped"
        /\ submitted = <<>>

\* C24: the order_type of the placeorder action is 1 for a MARKET order and
\* 2 for a LIMIT order.
C24_OrderTypeFromIntent ==
    (FromPlaceOrder /\ callTx >= 1) =>
        /\ params.type = "MARKET" => LastSubmitted[2].data.order_type = 1
        /\ params.type = "LIMIT" => LastSubmitted[2].data.order_type = 2

\* the base token a market symbol names
BaseOf(symbol) ==
    CASE symbol = "XPR_XMD" -> "XPR"
      [] symbol = "XDOGE_XMD" -> "XDOGE"
      [] symbol = "XBTC_XMD" -> "XBTC"
      [] OTHER -> ""

\* C25: a submitted order carries the market id bound to its market symbol,
\* and its transfer and its bid/ask symbols use that market's token pair.
C25_MarketBinding ==
    (FromPlaceOrder /\ callTx >= 1) =>
        LET a == LastSubmitted IN
        /\ a[2].data.market_id = MARKET_IDS[params.marketSymbol]
        /\ a[2].data.bid_symbol = BaseOf(params.marketSymbol)
        /\ a[2].data.ask_symbol = "XMD"
        /\ a[1].data.code = IF params.side = "BUY" THEN "XMD"
                            ELSE BaseOf(params.marketSymbol)

\* C26: an order that entered placeOrder with a positive quantity is handed
\* to transact only with a quantity greater than zero.
C26_PositiveQuantity ==
    (FromPlaceOrder /\ callTx >= 1 /\ callerQuantity.n > 0) =>
        params.quantity.n > 0

\* C22: without forceAction, when price action, volume and order-book
\* imbalance are all bullish, analyzeTrends returns trend bullish with a
\* confidence above 50, whatever the volatility is.
C22_BullishMajority ==
    (atPc = "done" /\ ~atForce /\ analysis.trend # "error"
       /\ signals.price_change > 0 /\ signals.volume = "increasing"
       /\ signals.imbalance > 0) =>
        /\ analysis.trend = "bullish"
        /\ analysis.confidence > 50

\* C27: every decision executeLoop hands to DexModule.execute is priced at
\* most 1.05 times the market price, also when the price fetch returned nothing.
C27_NeverAboveFivePercent ==
    \A i \in 1..Len(executed) : 100 * executed[i].price <= 105 * marketPrice

\* C28: in loop mode, when from some cycle on every cycle of executeAgent
\* fails, the main loop eventually exits ('Max retries reached').
C28_LoopExitsOnFailures ==
    (<>[](loopPc.loop /\ lastCycle \in CycleErrors)) => <>(loopPc.at = "exited")

\* C29: in createTemplate and mintAsset a transaction is broadcast again
\* only after attempts whose transaction was not processed.
C29_NoRebroadcastAfterProcessed ==
    mintOp \in {"createTemplate", "mintAsset"} =>
        \A i \in 1..(Len(broadcasts) - 1) :
            broadcasts[i] \notin {"processed", "processed_no_id"}

\* C30: when the collection exists and the account is not authorized for
\* it, createCollection broadcasts nothing and returns a failure.
C30_UnauthorizedNotCreated ==
    (mintOp = "createCollection" /\ existing = "unauthorized") =>
        /\ broadcasts = <<>>
        /\ (mintPc = "done" => mintResult = "failure")

====
